---- MODULE Spec2Model ----
(***************************************************************************)
(* Verification model of the video localization backend (server.js):       *)
(*   - the job coordinator: localizerJobs registry, its JSON store, the    *)
(*     generateAllCountries task, cancel / delete and the night queue;     *)
(*   - the translation fallback of both pipelines;                         *)
(*   - the text segment builder of POST /api/localizer/analyze.            *)
(* Time stamps of the analysis are counted in frame intervals (0.5 s).     *)
(***************************************************************************)
EXTENDS Integers, Sequences, FiniteSets, TLC

\* ------------------------------------------------------------------------
\* Bounds of the model
\* ------------------------------------------------------------------------
NumLangs == 2
MaxJobs == 1
MaxClock == 1
MaxRestarts == 1
MaxQueue == 1
MaxRuns == 1
MaxTexts == 2
MaxFrames == 4
MaxLen == 3
MaxCuts == 4
MaxListJobs == 2
MaxRerunJobs == 3
MaxReruns == 2

\* ------------------------------------------------------------------------
\* Program constants
\* ------------------------------------------------------------------------
ALL_COUNTRIES == <<"HR", "CZ", "PL", "GR", "IT", "HU", "SK">>

\* job.countries: the target list of a job (a prefix of ALL_COUNTRIES here)
LANGUAGES == SubSeq(ALL_COUNTRIES, 1, NumLangs)

\* files present under uploads/ ; "vX" names a file that is not there and
\* "" a request without the videoClean field
Uploads == {"v1"}
VideoNames == {"v1", "vX"}

\* namingParts.author of a job and the author field of a delete request
JobAuthors == {"", "Ana"}
RequestAuthors == {"", "ANA", "bor"}

VARIABLES
    now,            \* Date.now()
    jobs,           \* the job objects (heap), by slot
    tasks,          \* the generateAllCountries task of each job object
    localizerJobs,  \* the Map id -> job object, in insertion order
    jobsFile,       \* data/localizer-jobs.json
    queueFile,      \* queue.json
    runs,           \* the running processQueue invocations
    outDirs,        \* job ids whose uploads/generated/<id> directory exists
    outFiles,       \* rendered videos on disk, <<id, lang>>
    restarts,       \* number of process restarts so far
    tr,             \* translation step: the job under translation
    an,             \* analysis: state of one POST /api/localizer/analyze
    nz,             \* comparison normalization applied to one string
    sc,             \* scene splitter: state of one smart-analyze request
    ps              \* position of one text of a render

jobVars == <<now, jobs, tasks, localizerJobs, jobsFile, queueFile, runs,
             outDirs, outFiles, restarts>>
vars == <<now, jobs, tasks, localizerJobs, jobsFile, queueFile, runs,
          outDirs, outFiles, restarts, tr, an, nz, sc, ps>>

\* the job objects the heap has room for
Slots == DOMAIN jobs

\* the processQueue invocations that can be in progress
RunIds == DOMAIN runs

\* ------------------------------------------------------------------------
\* Job records
\* ------------------------------------------------------------------------
NoId == <<"", 0>>

NoJob == [id |-> NoId, author |-> "", status |-> "", cancelled |-> FALSE,
          completed |-> 0, currentLang |-> "", outputs |-> {},
          qualityChecks |-> {}, error |-> FALSE]

\* the job literal of POST /api/localizer/generate and the genJob of
\* processQueue: both start in status translating with no outputs
NewJob(id, author) ==
    [id |-> id, author |-> author, status |-> "translating",
     cancelled |-> FALSE, completed |-> 0, currentLang |-> "",
     outputs |-> {}, qualityChecks |-> {}, error |-> FALSE]

NoTask == [pc |-> "none", langIdx |-> 0, run |-> 0, entry |-> 0]

IdleRun == [queue |-> <<>>, cur |-> 0]

\* String.prototype.toUpperCase on the author names and texts used here
ToUpperCase(a) ==
    CASE a = "Ana" -> "ANA"
      [] a = "bor" -> "BOR"
      [] a = "Sale" -> "SALE"
      [] a = "Novo" -> "NOVO"
      [] a = "Hit" -> "HIT"
      [] a = "Popust" -> "POPUST"
      [] OTHER -> a

\* ------------------------------------------------------------------------
\* The Map localizerJobs
\* ------------------------------------------------------------------------
MapHas(reg, id) == \E i \in 1..Len(reg) : reg[i].id = id

MapIndex(reg, id) == CHOOSE i \in 1..Len(reg) : reg[i].id = id

\* Map.get: the slot of the job object, 0 when the id is unknown
MapGet(reg, id) == IF MapHas(reg, id) THEN reg[MapIndex(reg, id)].obj ELSE 0

\* Map.set keeps the position of an existing key
MapSet(reg, id, k) ==
    IF MapHas(reg, id)
    THEN [reg EXCEPT ![MapIndex(reg, id)].obj = k]
    ELSE Append(reg, [id |-> id, obj |-> k])

MapDelete(reg, id) == SelectSeq(reg, LAMBDA e : e.id # id)

MapObjs(reg) == {reg[i].obj : i \in 1..Len(reg)}

\* ------------------------------------------------------------------------
\* The state the operations work on, as one record
\* ------------------------------------------------------------------------
Cur == [jobs |-> jobs, tasks |-> tasks, reg |-> localizerJobs,
        jobsFile |-> jobsFile, queueFile |-> queueFile, runs |-> runs,
        outDirs |-> outDirs, outFiles |-> outFiles, ok |-> TRUE]

Commit(s) ==
    /\ s.ok
    /\ jobs' = s.jobs
    /\ tasks' = s.tasks
    /\ localizerJobs' = s.reg
    /\ jobsFile' = s.jobsFile
    /\ queueFile' = s.queueFile
    /\ runs' = s.runs
    /\ outDirs' = s.outDirs
    /\ outFiles' = s.outFiles

\* a writer that stores the first job of the Map only
PersistFirstJob(s) ==
    [s EXCEPT !.jobsFile = [i \in 1..(IF s.reg = <<>> THEN 0 ELSE 1) |-> s.jobs[s.reg[i].obj]]]

\* persistJobs: the whole Map is written, in Map order
PersistJobs(s) ==
    [s EXCEPT !.jobsFile = [i \in 1..Len(s.reg) |-> s.jobs[s.reg[i].obj]]]

\* a slot whose object nothing refers to any more: not in the Map and its
\* task is not running
Collectable(s, k) ==
    /\ k \notin MapObjs(s.reg)
    /\ s.tasks[k].pc \in {"none", "returned", "rejected"}

\* the slot of a new job object: the lowest collectable one, k0 excepted
\* (the slot of the task that is just ending is not taken in the same step)
HasSlot(s, k0) == \E k \in Slots \ {k0} : Collectable(s, k)

NewSlot(s, k0) == CHOOSE k \in Slots \ {k0} :
                     /\ Collectable(s, k)
                     /\ \A j \in Slots \ {k0} : Collectable(s, j) => k <= j

\* ------------------------------------------------------------------------
\* generateAllCountries
\* ------------------------------------------------------------------------
\* a loop that never looks at the flag
CancelCheckNever(job) == FALSE

\* if (job.cancelled)
CancelCheck(job) == job.cancelled

\* the synchronous prefix: mkdirSync(outputDir), then await fetch(...)
StartGenerate(s, k, r, e) ==
    [s EXCEPT !.outDirs = @ \cup {s.jobs[k].id},
              !.tasks[k] = [pc |-> "fetch", langIdx |-> 0,
                            run |-> r, entry |-> e]]

\* top of the language loop for LANGUAGES[idx] (1-based), up to the await
\* of the render; the task's way out is left in tasks[k].pc
LanguageIteration(s, k, idx) ==
    LET job == s.jobs[k] IN
    IF idx > Len(LANGUAGES)
    THEN PersistJobs([s EXCEPT !.jobs[k].status = "done",
                               !.jobs[k].currentLang = "",
                               !.tasks[k].pc = "returned"])
    ELSE IF CancelCheck(job)
    THEN PersistJobs([s EXCEPT !.jobs[k].status = "cancelled",
                               !.jobs[k].currentLang = "",
                               !.tasks[k].pc = "returned"])
    ELSE IF job.id \notin s.outDirs
    THEN \* writeFileSync(assPath) throws ENOENT
         [s EXCEPT !.jobs[k].currentLang = LANGUAGES[idx],
                   !.tasks[k].pc = "rejected"]
    ELSE [s EXCEPT !.jobs[k].currentLang = LANGUAGES[idx],
                   !.tasks[k].pc = "encode",
                   !.tasks[k].langIdx = idx]

\* after the translation response was read and parsed
AfterTranslate(s, k) ==
    IF CancelCheck(s.jobs[k])
    THEN PersistJobs([s EXCEPT !.jobs[k].status = "cancelled",
                               !.tasks[k].pc = "returned"])
    ELSE LanguageIteration([s EXCEPT !.jobs[k].status = "generating"], k, 1)

\* a counter that is one language behind
CompletedBefore(idx) == idx - 1

\* job.completed = langIdx + 1, for the 1-based idx of the model
Completed(idx) == idx

\* after the encode of LANGUAGES[langIdx] exited with 0: record the output,
\* then qualityCheckVideo runs up to its first await (mkdirSync of qcDir
\* creates the output directory again when it is gone)
AfterEncode(s, k) ==
    LET job == s.jobs[k]
        idx == s.tasks[k].langIdx
        lang == LANGUAGES[idx]
    IN [s EXCEPT !.jobs[k].outputs = @ \cup {lang},
                 !.jobs[k].completed = Completed(idx),
                 !.outFiles = IF job.id \in s.outDirs
                              THEN @ \cup {<<job.id, lang>>} ELSE @,
                 !.outDirs = @ \cup {job.id},
                 !.tasks[k].pc = "qc"]

\* after qualityCheckVideo returned: store its result, persist, next language
AfterQc(s, k) ==
    LET idx == s.tasks[k].langIdx
        s1 == PersistJobs([s EXCEPT !.jobs[k].qualityChecks =
                                        @ \cup {LANGUAGES[idx]}])
    IN LanguageIteration(s1, k, idx + 1)

\* ------------------------------------------------------------------------
\* processQueue
\* ------------------------------------------------------------------------
\* the for loop over the local queue from position i, up to the await of
\* generateAllCountries: cur is the entry whose job was started (0: none)
RECURSIVE RunLoop(_, _)
RunLoop(q, i) ==
    IF i > Len(q) THEN [queue |-> q, cur |-> 0, saved |-> FALSE]
    ELSE IF q[i].status # "pending" THEN RunLoop(q, i + 1)
    ELSE IF q[i].video \notin Uploads
    THEN [RunLoop([q EXCEPT ![i].status = "error"], i + 1)
             EXCEPT !.saved = TRUE]
    ELSE [queue |-> [q EXCEPT ![i].status = "processing"], cur |-> i,
          saved |-> TRUE]

\* run r goes on with its local queue q from position i
RunFrom(s, r, q, i, k0) ==
    LET loop == RunLoop(q, i)
        s1 == [s EXCEPT !.runs[r] = [queue |-> loop.queue, cur |-> loop.cur],
                        !.queueFile = IF loop.saved THEN loop.queue ELSE @]
    IN IF loop.cur = 0 THEN [s1 EXCEPT !.runs[r] = IdleRun]
       ELSE IF ~HasSlot(s1, k0) THEN [s1 EXCEPT !.ok = FALSE]
       ELSE LET n == NewSlot(s1, k0)
                e == loop.queue[loop.cur]
                s2 == [s1 EXCEPT !.jobs[n] = NewJob(e.id, e.author),
                                 !.reg = MapSet(@, e.id, n)]
            IN StartGenerate(s2, n, r, loop.cur)

\* the task of job object k ended (pc is returned or rejected): the
\* .catch of the generate endpoint, or the rest of processQueue's loop body
TaskEnded(s, k) ==
    LET t == s.tasks[k] IN
    IF t.pc \notin {"returned", "rejected"} THEN s
    ELSE IF t.run = 0
    THEN IF t.pc = "rejected"
         THEN PersistJobs([s EXCEPT !.jobs[k].status = "error",
                                    !.jobs[k].error = TRUE])
         ELSE s
    ELSE LET q == [s.runs[t.run].queue EXCEPT ![t.entry].status =
                       IF t.pc = "rejected" THEN "error" ELSE "done"]
         IN RunFrom([s EXCEPT !.queueFile = q], t.run, q, t.entry + 1, k)

\* ------------------------------------------------------------------------
\* Initial state
\* ------------------------------------------------------------------------
InitHeap(n) ==
    /\ now = 0
    /\ jobs = [k \in 1..n |-> NoJob]
    /\ tasks = [k \in 1..n |-> NoTask]
    /\ localizerJobs = <<>>
    /\ jobsFile = <<>>
    /\ queueFile = <<>>
    /\ runs = [r \in 1..MaxRuns |-> IdleRun]
    /\ outDirs = {}
    /\ outFiles = {}
    /\ restarts = 0

InitJobs == InitHeap(MaxJobs)

\* no translation step in progress
NoTranslation ==
    [pc |-> "idle", pipeline |-> "", texts |-> <<>>, uppercase |-> FALSE,
     parse |-> "", translations |-> <<>>, rendered |-> <<>>]

\* no normalization in progress
NoNormalize == [pc |-> "idle", input |-> <<>>, once |-> <<>>, twice |-> <<>>]

\* no smart-analyze request in progress
NoScenes == [pc |-> "idle", times |-> <<>>, total |-> 0, raw |-> <<>>,
             segments |-> <<>>]

\* a value that may be undefined, as t.y
NoValue == [def |-> FALSE, v |-> 0]

\* no text is being placed
NoPosition == [pc |-> "idle", path |-> "", position |-> "", y |-> NoValue,
               imgW |-> 0, imgH |-> 0, pixelX |-> 0, pixelY |-> 0]

InitIdle ==
    /\ tr = NoTranslation
    /\ an = [pc |-> "idle", numFrames |-> 0, frames |-> <<>>,
             texts |-> <<>>, result |-> <<>>, framesDir |-> FALSE,
             response |-> "none"]
    /\ nz = NoNormalize
    /\ sc = NoScenes
    /\ ps = NoPosition

Init == InitJobs /\ InitIdle



\* ------------------------------------------------------------------------
\* Operations of the job coordinator
\* ------------------------------------------------------------------------
RequestIds == {<<p, n>> : p \in {"gen", "queue"}, n \in 0..MaxClock}

Tick ==
    /\ now < MaxClock
    /\ now' = now + 1
    /\ UNCHANGED <<jobs, tasks, localizerJobs, jobsFile, queueFile, runs,
                   outDirs, outFiles, restarts, tr, an, nz, sc, ps>>

\* POST /api/localizer/generate. The request is answered with 400 without
\* videoClean (or texts) and with 404 when the video is not under uploads/:
\* nothing is changed then
Generate(video, author) ==
    /\ video \in Uploads
    /\ HasSlot(Cur, 0)
    /\ LET id == <<"gen", now>>
           k == NewSlot(Cur, 0)
           s1 == [Cur EXCEPT !.jobs[k] = NewJob(id, author),
                             !.reg = MapSet(@, id, k)]
       IN Commit(StartGenerate(PersistJobs(s1), k, 0, 0))
    /\ UNCHANGED <<now, restarts, tr, an, nz, sc, ps>>

\* the translation request of job object k completes: the fetch rejects
\* (transport failure) or a response body was read
TranslateReturns(k, ok) ==
    /\ tasks[k].pc = "fetch"
    /\ Commit(TaskEnded(IF ok THEN AfterTranslate(Cur, k)
                        ELSE [Cur EXCEPT !.tasks[k].pc = "rejected"], k))
    /\ UNCHANGED <<now, restarts, tr, an, nz, sc, ps>>

\* the render of the current language completes: generateTextOverlayPngs
\* and the ffmpeg encode; a non-zero exit rejects execPromise
EncodeReturns(k, ok) ==
    /\ tasks[k].pc = "encode"
    /\ Commit(TaskEnded(IF ok THEN AfterEncode(Cur, k)
                        ELSE [Cur EXCEPT !.tasks[k].pc = "rejected"], k))
    /\ UNCHANGED <<now, restarts, tr, an, nz, sc, ps>>

\* qualityCheckVideo returns (it catches its own errors)
QcReturns(k) ==
    /\ tasks[k].pc = "qc"
    /\ Commit(TaskEnded(AfterQc(Cur, k), k))
    /\ UNCHANGED <<now, restarts, tr, an, nz, sc, ps>>

\* a handler that also takes a finished job
CancelAllowedDone(job) ==
    job.status \in {"translating", "generating", "done"}

\* if (job.status !== 'translating' && job.status !== 'generating') 400
CancelAllowed(job) == job.status \in {"translating", "generating"}

\* POST /api/localizer/job/:id/cancel: 404 for an unknown id, 400 for a job
\* that is not in progress
Cancel(id) ==
    /\ LET k == MapGet(localizerJobs, id) IN
       IF k = 0 THEN Commit(Cur)
       ELSE IF ~CancelAllowed(jobs[k]) THEN Commit(Cur)
       ELSE Commit(PersistJobs([Cur EXCEPT !.jobs[k].cancelled = TRUE]))
    /\ UNCHANGED <<now, restarts, tr, an, nz, sc, ps>>

\* if (jobAuthor && requestAuthor && jobAuthor !== requestAuthor) 403
DeleteForbidden(jobAuthor, requestAuthor) ==
    /\ ToUpperCase(jobAuthor) # ""
    /\ ToUpperCase(requestAuthor) # ""
    /\ ToUpperCase(jobAuthor) # ToUpperCase(requestAuthor)

\* DELETE /api/localizer/job/:id: 404 for an unknown id, 403 when forbidden
Delete(id, author) ==
    /\ LET k == MapGet(localizerJobs, id) IN
       IF k = 0 THEN Commit(Cur)
       ELSE IF DeleteForbidden(jobs[k].author, author) THEN Commit(Cur)
       ELSE Commit(PersistJobs(
                [Cur EXCEPT !.outDirs = @ \ {id},
                            !.outFiles = {f \in @ : f[1] # id},
                            !.reg = MapDelete(@, id)]))
    /\ UNCHANGED <<now, restarts, tr, an, nz, sc, ps>>

\* POST /api/queue/add (400 without name, videoClean or texts)
QueueAdd(video, author) ==
    /\ video # ""
    /\ Len(queueFile) < MaxQueue
    /\ queueFile' = Append(queueFile,
           [id |-> <<"queue", now>>, author |-> author,
            video |-> video, status |-> "pending"])
    /\ UNCHANGED <<now, jobs, tasks, localizerJobs, jobsFile, runs,
                   outDirs, outFiles, restarts, tr, an, nz, sc, ps>>

\* POST /api/queue/remove
QueueRemove(id) ==
    /\ queueFile' = SelectSeq(queueFile, LAMBDA e : e.id # id)
    /\ UNCHANGED <<now, jobs, tasks, localizerJobs, jobsFile, runs,
                   outDirs, outFiles, restarts, tr, an, nz, sc, ps>>

\* POST /api/queue/process with a pending entry: the request is answered,
\* then processQueue() runs up to its first await
QueueProcess ==
    /\ \E i \in 1..Len(queueFile) : queueFile[i].status = "pending"
    /\ \E r \in RunIds : runs[r] = IdleRun
    /\ LET r == CHOOSE r \in RunIds : runs[r] = IdleRun
       IN Commit(RunFrom(Cur, r, queueFile, 1, 0))
    /\ UNCHANGED <<now, restarts, tr, an, nz, sc, ps>>

\* a loader that gives up the jobs that were in progress
LoadJobInterrupted(job) ==
    IF job.status \in {"translating", "generating"}
    THEN [job EXCEPT !.status = "error"]
    ELSE job

\* savedJobs.forEach(job => localizerJobs.set(job.id, job)): the parsed
\* object is the job, with the fields that were written
LoadJob(job) == job

\* the process is stopped and started again: tasks and runs are gone, the
\* Map is filled from the jobs file
Restart ==
    /\ restarts < MaxRestarts
    /\ restarts' = restarts + 1
    /\ jobs' = [k \in Slots |-> IF k <= Len(jobsFile)
                                THEN LoadJob(jobsFile[k])
                                ELSE NoJob]
    /\ localizerJobs' = [i \in 1..Len(jobsFile) |->
                            [id |-> jobsFile[i].id, obj |-> i]]
    /\ tasks' = [k \in Slots |-> NoTask]
    /\ runs' = [r \in RunIds |-> IdleRun]
    /\ UNCHANGED <<now, jobsFile, queueFile, outDirs, outFiles, tr, an, nz, sc, ps>>

\* jobs started by POST /api/localizer/generate
Next ==
    \/ Tick
    \/ \E v \in VideoNames \cup {""}, a \in JobAuthors : Generate(v, a)
    \/ \E k \in Slots, ok \in BOOLEAN : TranslateReturns(k, ok)
    \/ \E k \in Slots, ok \in BOOLEAN : EncodeReturns(k, ok)
    \/ \E k \in Slots : QcReturns(k)
    \/ \E id \in RequestIds : Cancel(id)
    \/ \E id \in RequestIds, a \in RequestAuthors : Delete(id, a)
    \/ Restart

Spec == Init /\ [][Next]_vars

\* jobs started by the night queue
NextQueue ==
    \/ Tick
    \/ \E v \in VideoNames \cup {""} : QueueAdd(v, "")
    \/ \E id \in RequestIds : QueueRemove(id)
    \/ QueueProcess
    \/ \E k \in Slots, ok \in BOOLEAN : TranslateReturns(k, ok)
    \/ \E k \in Slots, ok \in BOOLEAN : EncodeReturns(k, ok)
    \/ \E k \in Slots : QcReturns(k)
    \/ \E id \in RequestIds : Cancel(id)

SpecQueue == Init /\ [][NextQueue]_vars

\* ------------------------------------------------------------------------
\* Properties of the job coordinator
\* ------------------------------------------------------------------------
StatusRank(st) ==
    CASE st = "queued" -> 0
      [] st = "analyzing" -> 1
      [] st = "translating" -> 2
      [] st = "generating" -> 3
      [] st = "done" -> 4
      [] OTHER -> 5

\* a poll that saw status a may see status b next
StatusStepAllowed(a, b) ==
    \/ a = b
    \/ /\ a \in {"queued", "analyzing", "translating", "generating"}
       /\ b \in {"error", "cancelled"} \/ StatusRank(b) > StatusRank(a)

\* C1: the status GET /api/localizer/job/:id shows for a job id only moves
\* forward along queued, analyzing, translating, generating, done or ends
\* in error / cancelled, and error, cancelled and done never change again.
C1_StatusMonotone ==
    [][\A id \in RequestIds :
          (MapHas(localizerJobs, id) /\ MapHas(localizerJobs', id)) =>
              StatusStepAllowed(jobs[MapGet(localizerJobs, id)].status,
                                jobs'[MapGet(localizerJobs', id)].status)]_vars

\* C2: a task that finds job.cancelled set after the translation was read
\* or at the start of a language iteration starts no render, returns with
\* the job in status cancelled and leaves job.outputs as they were.
C2_CancelStopsJob ==
    [][\A k \in Slots :
          (/\ jobs[k].cancelled
           /\ \/ tasks[k].pc = "fetch"
              \/ tasks[k].pc = "qc" /\ tasks[k].langIdx < Len(LANGUAGES)
           /\ tasks'[k].pc \notin {tasks[k].pc, "rejected", "none"})
          => /\ tasks'[k].pc = "returned"
             /\ jobs'[k].status = "cancelled"
             /\ jobs'[k].outputs = jobs[k].outputs
             /\ outFiles' = outFiles]_vars

\* a task returned on the cancel check after at least one language was
\* rendered
C2_Witness ==
    \E k \in Slots : /\ tasks[k].pc = "returned"
                     /\ jobs[k].status = "cancelled"
                     /\ jobs[k].outputs # {}

\* C3: a cancel request sets job.cancelled only for a known job in status
\* translating or generating; for any other job or an unknown id it
\* changes nothing; and no other step sets the flag of a job object.
C3_CancelOnlyInProgress ==
    [][/\ \A id \in RequestIds :
             Cancel(id) =>
                 LET k == MapGet(localizerJobs, id) IN
                 IF k # 0 /\ jobs[k].status \in {"translating", "generating"}
                 THEN jobs'[k].cancelled
                 ELSE UNCHANGED jobVars
       /\ \A k \in Slots :
             (/\ jobs'[k].id = jobs[k].id
              /\ restarts' = restarts
              /\ ~jobs[k].cancelled
              /\ jobs'[k].cancelled)
             => /\ jobs[k].status \in {"translating", "generating"}
                /\ MapGet(localizerJobs, jobs[k].id) = k]_vars

\* a cancel request was accepted for a job whose task is still running
C3_Witness ==
    \E k \in Slots : /\ jobs[k].cancelled
                     /\ jobs[k].status \in {"translating", "generating"}
                     /\ tasks[k].pc \in {"fetch", "encode", "qc"}

\* C4: a delete request whose author is missing or differs from the job's
\* recorded author leaves the Map entry, the stored record and the output
\* files of the job in place.
C4_DeleteNeedsAuthor ==
    [][\A id \in RequestIds, a \in RequestAuthors :
          (/\ Delete(id, a)
           /\ MapHas(localizerJobs, id)
           /\ ToUpperCase(a) #
                  ToUpperCase(jobs[MapGet(localizerJobs, id)].author))
          => /\ MapHas(localizerJobs', id)
             /\ jobsFile' = jobsFile
             /\ outDirs' = outDirs
             /\ outFiles' = outFiles]_vars

\* C5: whenever the tasks are suspended, the stored record of every job of
\* the Map shows the status, outputs and completed counter of the job
\* object.
C5_PersistedEqualsMemory ==
    \A i \in 1..Len(localizerJobs) :
        LET job == jobs[localizerJobs[i].obj] IN
        \E j \in 1..Len(jobsFile) :
            /\ jobsFile[j].id = job.id
            /\ jobsFile[j].status = job.status
            /\ jobsFile[j].outputs = job.outputs
            /\ jobsFile[j].completed = job.completed

\* C6: once the pipeline of a job has thrown, the job record of the Map
\* has status error and an error message.
C6_FailureBecomesError ==
    \A k \in Slots :
        (tasks[k].pc = "rejected" /\ MapGet(localizerJobs, jobs[k].id) = k)
        => jobs[k].status = "error" /\ jobs[k].error

\* C7: when the encode of a language that is not the last one fails, the
\* language gets no output entry and the task goes on with the render of
\* the next language.
C7_EncodeFailureContinues ==
    [][\A k \in Slots :
          (/\ EncodeReturns(k, FALSE)
           /\ tasks[k].langIdx < Len(LANGUAGES)
           /\ ~jobs[k].cancelled)
          => /\ LANGUAGES[tasks[k].langIdx] \notin jobs'[k].outputs
             /\ tasks'[k].pc = "encode"
             /\ tasks'[k].langIdx = tasks[k].langIdx + 1]_vars

\* ------------------------------------------------------------------------
\* The translation step of processLocalizationJob and generateAllCountries
\* ------------------------------------------------------------------------
\* job.texts[i].text / segments[i].text: the first n of these
SourceTexts == <<"Sale", "-50%", "Novo", "Hit">>

\* a translated string of the response; "" is an empty translation
TranslatedTexts == {"", "Popust"}

LangSet == {LANGUAGES[i] : i \in 1..Len(LANGUAGES)}

\* The message content is a sequence of tokens: the brackets and the comma
\* of JSON, a complete JSON object {"HR":"...",...} (v: its members), null
\* and a word of prose.
Tok(k) == [k |-> k, v |-> <<>>]

Obj(o) == [k |-> "obj", v |-> o]

JsonObjects == UNION {[S -> TranslatedTexts] : S \in SUBSET LangSet}

JsonValues == {Obj(o) : o \in JsonObjects} \cup {Tok("null")}

JsonArrays == UNION {[1..n -> JsonValues] : n \in 0..MaxTexts}

\* JSON text of an array: [ v1 , v2 , ... ]
RECURSIVE Join(_, _)
Join(arr, i) ==
    IF i > Len(arr) THEN <<>>
    ELSE (IF i > 1 THEN <<Tok(",")>> ELSE <<>>) \o <<arr[i]>> \o Join(arr, i + 1)

Stringify(arr) == <<Tok("[")>> \o Join(arr, 1) \o <<Tok("]")>>

\* the arrays that also come inside prose or damaged
ShortArrays == {a \in JsonArrays : Len(a) <= 1}

\* message contents the model answers with: nothing, prose only, an array
\* alone, an array inside prose, an array with a trailing comma and an
\* array cut off before its closing bracket
Contents ==
    {<<>>, <<Tok("w")>>}
    \cup {Stringify(a) : a \in JsonArrays}
    \cup {<<Tok("w")>> \o Stringify(a) \o <<Tok("w")>> : a \in ShortArrays}
    \cup {<<Tok("[")>> \o Join(a, 1) \o <<Tok(","), Tok("]")>> :
              a \in ShortArrays \ {<<>>}}
    \cup {<<Tok("[")>> \o Join(a, 1) : a \in ShortArrays \ {<<>>}}

\* outcome of the request: the fetch rejects, the body is not JSON, or a
\* completion with a message content
Responses ==
    {[kind |-> "reject", content |-> <<>>],
     [kind |-> "notjson", content |-> <<>>]}
    \cup {[kind |-> "json", content |-> c] : c \in Contents}

\* content.match(/\[[\s\S]*\]/): from the first [ to the last ]
FirstOpen(c) == CHOOSE i \in 1..Len(c) :
                   /\ c[i].k = "["
                   /\ \A j \in 1..(i - 1) : c[j].k # "["

LastClose(c) == CHOOSE i \in 1..Len(c) :
                   /\ c[i].k = "]"
                   /\ \A j \in (i + 1)..Len(c) : c[j].k # "]"

HasMatch(c) == \E i, j \in 1..Len(c) : i < j /\ c[i].k = "[" /\ c[j].k = "]"

Match(c) == SubSeq(c, FirstOpen(c), LastClose(c))

\* JSON.parse of a matched text [ ... ] whose values are objects or null:
\* ok is FALSE where JSON.parse throws a SyntaxError
JsonParse(m) ==
    LET inner == SubSeq(m, 2, Len(m) - 1)
        wellFormed ==
            \/ Len(inner) = 0
            \/ /\ Len(inner) % 2 = 1
               /\ \A p \in 1..Len(inner) :
                      IF p % 2 = 1 THEN inner[p].k \in {"obj", "null"}
                      ELSE inner[p].k = ","
    IN IF wellFormed
       THEN [ok |-> TRUE,
             value |-> [i \in 1..((Len(inner) + 1) \div 2) |-> inner[2 * i - 1]]]
       ELSE [ok |-> FALSE, value |-> <<>>]

\* translations[i]?.[lang]: undefined (def FALSE) beyond the array, for a
\* null element and for an object without the key
Lookup(translations, i, lang) ==
    IF /\ i <= Len(translations)
       /\ translations[i].k = "obj"
       /\ lang \in DOMAIN translations[i].v
    THEN [def |-> TRUE, s |-> translations[i].v[lang]]
    ELSE [def |-> FALSE, s |-> ""]

\* translatedText || t.text
OrTextNoFallback(translated, text) == translated.s

OrText(translated, text) ==
    IF translated.def /\ translated.s # "" THEN translated.s ELSE text

\* the text written for segment i and language lang
RenderedText(pipeline, translations, texts, uppercase, i, lang) ==
    LET text == OrText(Lookup(translations, i, lang), texts[i])
    IN IF pipeline = "generateAllCountries" /\ uppercase
       THEN ToUpperCase(text)
       ELSE text

Render(pipeline, translations, texts, uppercase) ==
    [i \in 1..Len(texts) |->
        [lang \in LangSet |->
            RenderedText(pipeline, translations, texts, uppercase, i, lang)]]

\* a job with n texts reaches the translation request; the all-caps option
\* exists for generateAllCountries only
TrStart(pipeline, n, uppercase) ==
    /\ tr.pc = "idle"
    /\ pipeline = "processLocalizationJob" => ~uppercase
    /\ tr' = [NoTranslation EXCEPT !.pc = "fetch", !.pipeline = pipeline,
                                   !.texts = SubSeq(SourceTexts, 1, n),
                                   !.uppercase = uppercase]
    /\ UNCHANGED <<jobVars, an, nz, sc, ps>>

\* the state after the request completed with resp and the code ran up to
\* the renders
AfterResponse(resp) ==
    IF resp.kind # "json"
    THEN [tr EXCEPT !.pc = "error"]
    ELSE LET transContent == IF resp.content = <<>>
                             THEN <<Tok("["), Tok("]")>>
                             ELSE resp.content
             parsed == IF HasMatch(transContent)
                       THEN JsonParse(Match(transContent))
                       ELSE [ok |-> TRUE, value |-> <<>>]
             parse == IF ~HasMatch(transContent) THEN "nomatch"
                      ELSE IF parsed.ok THEN "ok" ELSE "failed"
         IN IF ~parsed.ok /\ tr.pipeline = "processLocalizationJob"
            THEN [tr EXCEPT !.pc = "error", !.parse = parse]
            ELSE [tr EXCEPT !.pc = "generating", !.parse = parse,
                            !.translations = parsed.value,
                            !.rendered = Render(tr.pipeline, parsed.value,
                                                tr.texts, tr.uppercase)]

TrResponse ==
    /\ tr.pc = "fetch"
    /\ \E resp \in Responses : tr' = AfterResponse(resp)
    /\ UNCHANGED <<jobVars, an, nz, sc, ps>>

NextTranslate ==
    \/ \E p \in {"processLocalizationJob", "generateAllCountries"},
          n \in 1..MaxTexts, u \in BOOLEAN : TrStart(p, n, u)
    \/ TrResponse

SpecTranslate == Init /\ [][NextTranslate]_vars

\* ------------------------------------------------------------------------
\* Properties of the translation step
\* ------------------------------------------------------------------------
\* the parsed response has no entry for segment i and language lang
NoEntry(i, lang) == ~Lookup(tr.translations, i, lang).def

\* C8 (as stated): when the successfully parsed response has no entry for
\* (i, L), the text rendered for (i, L) is the source text of segment i,
\* character for character.
C8_FallbackVerbatim ==
    (tr.pc = "generating" /\ tr.parse = "ok") =>
        \A i \in 1..Len(tr.texts), lang \in LangSet :
            NoEntry(i, lang) => tr.rendered[i][lang] = tr.texts[i]

\* C8 (amended): when the successfully parsed response has no entry for
\* (i, L), the text rendered for (i, L) is the source text of segment i,
\* converted to upper case when the job has the all-caps option set and
\* character for character otherwise.
C8_FallbackSourceText ==
    (tr.pc = "generating" /\ tr.parse = "ok") =>
        \A i \in 1..Len(tr.texts), lang \in LangSet :
            NoEntry(i, lang) =>
                tr.rendered[i][lang] = IF tr.uppercase
                                       THEN ToUpperCase(tr.texts[i])
                                       ELSE tr.texts[i]

\* a parsed response that translates one text of an all-caps job with
\* lower-case letters and has no entry for another language of it
C8_Witness ==
    /\ tr.pc = "generating"
    /\ tr.parse = "ok"
    /\ tr.uppercase
    /\ \E i \in 1..Len(tr.texts), l1, l2 \in LangSet :
          /\ ToUpperCase(tr.texts[i]) # tr.texts[i]
          /\ NoEntry(i, l1)
          /\ ~NoEntry(i, l2)
          /\ tr.rendered[i][l2] = "POPUST"

\* C9: when the message content cannot be parsed, the job does not fail:
\* it proceeds to generation and every segment is rendered with its source
\* text (in upper case for an all-caps job) for every language, in both
\* pipelines.
C9_ParseFailureFallsBack ==
    tr.parse \in {"nomatch", "failed"} =>
        /\ tr.pc = "generating"
        /\ \A i \in 1..Len(tr.texts), lang \in LangSet :
              tr.rendered[i][lang] = IF tr.uppercase
                                     THEN ToUpperCase(tr.texts[i])
                                     ELSE tr.texts[i]

\* ------------------------------------------------------------------------
\* Strings of the analysis: sequences of characters
\* ------------------------------------------------------------------------
\* "<fire>" is U+1F525 (range 1F300-1F9FF) and "<star>" is U+2605 (range
\* 2600-26FF); every character that is no letter, digit, space or one of
\* these two counts as punctuation
UpperCase == <<"A", "B", "C", "D", "E", "F", "G", "H", "I", "J", "K", "L", "M",
               "N", "O", "P", "Q", "R", "S", "T", "U", "V", "W", "X", "Y", "Z">>

LowerCase == <<"a", "b", "c", "d", "e", "f", "g", "h", "i", "j", "k", "l", "m",
               "n", "o", "p", "q", "r", "s", "t", "u", "v", "w", "x", "y", "z">>

Letters == {UpperCase[i] : i \in 1..26} \cup {LowerCase[i] : i \in 1..26}
               \cup {"<I-dot>"}

Digits == {"0", "1", "2", "3", "4", "5", "6", "7", "8", "9"}

Spaces == {" "}

\* String.prototype.toLowerCase, one character
LowerChar(c) ==
    IF \E i \in 1..26 : UpperCase[i] = c
    THEN LowerCase[CHOOSE i \in 1..26 : UpperCase[i] = c]
    ELSE c

\* the lower case of "<I-dot>" (U+0130) is two characters: i and the
\* combining dot above (U+0307), which is a mark and no letter
LowerString(c) ==
    IF c = "<I-dot>" THEN <<"i", "<dot-above>">> ELSE <<LowerChar(c)>>

RECURSIVE ToLowerCase(_)
ToLowerCase(str) ==
    IF str = <<>> THEN <<>>
    ELSE LowerString(Head(str)) \o ToLowerCase(Tail(str))

\* str.replace(/[set]/g, '')
Remove(str, set) == SelectSeq(str, LAMBDA c : c \notin set)

RECURSIVE DropWhile(_, _)
DropWhile(str, set) ==
    IF str # <<>> /\ Head(str) \in set THEN DropWhile(Tail(str), set) ELSE str

RECURSIVE DropEndWhile(_, _)
DropEndWhile(str, set) ==
    IF str # <<>> /\ str[Len(str)] \in set
    THEN DropEndWhile(SubSeq(str, 1, Len(str) - 1), set)
    ELSE str

\* String.prototype.trim
Trim(str) == DropEndWhile(DropWhile(str, Spaces), Spaces)

\* str.replace(/\s+/g, ' ')
RECURSIVE CollapseSpaces(_)
CollapseSpaces(str) ==
    IF str = <<>> THEN <<>>
    ELSE IF Head(str) \in Spaces
         THEN <<" ">> \o CollapseSpaces(DropWhile(str, Spaces))
         ELSE <<Head(str)>> \o CollapseSpaces(Tail(str))

StartsWith(str, prefix) ==
    Len(str) >= Len(prefix) /\ SubSeq(str, 1, Len(prefix)) = prefix

\* the text kept of a detection: emoji and symbol ranges removed, trimmed
NormalizedText(textContent) == Trim(Remove(textContent, {"<fire>", "<star>"}))

\* stripForCompare, stripForCompare2 and normalizeForMerge (the same
\* chain): emoji removed, only letters, digits and spaces kept, spaces
\* collapsed, trimmed, lower case
StripForCompare(str) ==
    ToLowerCase(Trim(CollapseSpaces(
        SelectSeq(Remove(str, {"<fire>"}),
                  LAMBDA c : c \in Letters \cup Digits \cup Spaces))))

BRAND_FILTER ==
    {<<"n", "o", "r", "i", "k", "s">>,
     <<"n", "i", "k", "e">>,
     <<"a", "d", "i", "d", "a", "s">>,
     <<"p", "u", "m", "a">>,
     <<"u", "n", "d", "e", "r", " ", "a", "r", "m", "o", "u", "r">>,
     <<"c", "a", "l", "v", "i", "n", " ", "k", "l", "e", "i", "n">>,
     <<"t", "o", "m", "m", "y", " ", "h", "i", "l", "f", "i", "g", "e", "r">>,
     <<"h", "u", "g", "o", " ", "b", "o", "s", "s">>,
     <<"l", "a", "c", "o", "s", "t", "e">>,
     <<"r", "a", "l", "p", "h", " ", "l", "a", "u", "r", "e", "n">>,
     <<"a", "r", "m", "a", "n", "i">>,
     <<"d", "i", "e", "s", "e", "l">>,
     <<"l", "e", "v", "i", "s">>,
     <<"g", "a", "p">>,
     <<"z", "a", "r", "a">>,
     <<"h", "&", "m">>,
     <<"n", "a", "n", "o">>}

SIZE_FILTER ==
    {<<"x", "s">>,
     <<"s">>,
     <<"m">>,
     <<"l">>,
     <<"x", "l">>,
     <<"2", "x", "l">>,
     <<"3", "x", "l">>,
     <<"4", "x", "l">>,
     <<"5", "x", "l">>,
     <<"x", "x", "l">>,
     <<"x", "x", "x", "l">>}

\* brand.replace(' ', ''): the first space removed
RECURSIVE RemoveFirstSpace(_)
RemoveFirstSpace(str) ==
    IF str = <<>> THEN <<>>
    ELSE IF Head(str) = " " THEN Tail(str)
         ELSE <<Head(str)>> \o RemoveFirstSpace(Tail(str))

Noriks == <<"n", "o", "r", "i", "k", "s">>

\* /^noriks\s*\d*x*l$/i and /^\d*x*l\s*noriks$/i on a lower-case text
BrandSizeRe(textLower) ==
    \/ /\ StartsWith(textLower, Noriks)
       /\ DropWhile(DropWhile(DropWhile(SubSeq(textLower, 7, Len(textLower)),
                                        Spaces), Digits), {"x"}) = <<"l">>
    \/ LET r == DropWhile(DropWhile(textLower, Digits), {"x"})
       IN /\ r # <<>>
          /\ Head(r) = "l"
          /\ DropWhile(Tail(r), Spaces) = Noriks

\* /^[a-z]+\s+(simple\s+)?(shirts|done|better)/i on a lower-case text
SloganRe(textLower) ==
    LET lower == {LowerCase[i] : i \in 1..26}
        r1 == DropWhile(textLower, lower)
        r2 == DropWhile(r1, Spaces)
        r3 == DropWhile(SubSeq(r2, 7, Len(r2)), Spaces)
        word(r) == \/ StartsWith(r, <<"s", "h", "i", "r", "t", "s">>)
                   \/ StartsWith(r, <<"d", "o", "n", "e">>)
                   \/ StartsWith(r, <<"b", "e", "t", "t", "e", "r">>)
    IN /\ Len(r1) < Len(textLower)
       /\ Len(r2) < Len(r1)
       /\ \/ word(r2)
          \/ /\ StartsWith(r2, <<"s", "i", "m", "p", "l", "e">>)
             /\ Len(r3) < Len(r2) - 6
             /\ word(r3)

\* ------------------------------------------------------------------------
\* The text segment builder of POST /api/localizer/analyze
\* ------------------------------------------------------------------------
\* Times are counted in units of 0.5 s: frame i (frame-00i.jpg) has the
\* timestamp i - 1 and frameInterval is 1.
frameInterval == 1

Timestamp(frameNum) == frameNum - 1

\* texts a frame response reports
SALE == <<"S", "A", "L", "E">>
SaleBang == <<"s", "a", "l", "e", "!">>
NEWTEXT == <<"N", "E", "W">>
FireOnly == <<"<fire>">>
Bangs == <<"!", "!", "!">>
SizeXL == <<"X", "L">>

\* parsed.texts of a frame response
FrameTexts ==
    {<<>>, <<SALE>>, <<SaleBang>>, <<FireOnly>>, <<Bangs>>, <<SizeXL>>,
     <<SALE, NEWTEXT>>}

\* what the analysis of one frame gives: a response whose JSON does not
\* parse (the frame is skipped by continue; a response without braces and
\* a failed request skip the text steps in the same way), or parsed.texts
FrameOutcomes ==
    {[kind |-> "unparsable", texts |-> <<>>]}
    \cup {[kind |-> "parsed", texts |-> d] : d \in FrameTexts}

NewText(normalizedText, timestamp) ==
    [text |-> normalizedText, start |-> timestamp,
     end |-> timestamp + frameInterval, closed |-> FALSE]

\* texts.find(x => !x.closed && (...same text...)): index of the first
\* open entry with the same text, 0 when there is none
SameText(x, normalizedText) ==
    \/ x.text = normalizedText
    \/ ToLowerCase(x.text) = ToLowerCase(normalizedText)
    \/ StripForCompare(x.text) = StripForCompare(normalizedText)

FindOpen(texts, normalizedText) ==
    LET found == {i \in 1..Len(texts) :
                     ~texts[i].closed /\ SameText(texts[i], normalizedText)}
    IN IF found = {} THEN 0
       ELSE CHOOSE i \in found : \A j \in found : i <= j

\* gap <= frameInterval in the builder
GapExtends(gap) == gap <= frameInterval

\* one detection t of parsed.texts.forEach
AddDetection(texts, textContent, timestamp) ==
    LET normalizedText == NormalizedText(textContent)
        e == FindOpen(texts, normalizedText)
    IN IF normalizedText = <<>> THEN texts
       ELSE IF e # 0 /\ GapExtends(timestamp - texts[e].end)
            THEN [texts EXCEPT ![e].end = timestamp + frameInterval]
            ELSE Append(texts, NewText(normalizedText, timestamp))

RECURSIVE AddDetections(_, _, _, _)
AddDetections(texts, detections, j, timestamp) ==
    IF j > Len(detections) THEN texts
    ELSE AddDetections(AddDetection(texts, detections[j], timestamp),
                       detections, j + 1, timestamp)

\* "Mark texts that are no longer visible in this frame"
CloseMissing(texts, detections, timestamp) ==
    LET currentTextsNormalized ==
            {StripForCompare(detections[j]) : j \in 1..Len(detections)}
    IN [i \in 1..Len(texts) |->
           IF /\ ~texts[i].closed
              /\ StripForCompare(texts[i].text) \notin currentTextsNormalized
              /\ timestamp > texts[i].start
           THEN [texts[i] EXCEPT !.end = timestamp, !.closed = TRUE]
           ELSE texts[i]]

\* the body of the frame loop for one frame
ProcessFrame(texts, outcome, timestamp) ==
    IF outcome.kind = "unparsable" THEN texts
    ELSE CloseMissing(AddDetections(texts, outcome.texts, 1, timestamp),
                      outcome.texts, timestamp)

\* "Close any still-open texts at the end": end of the last frame
CloseAtEndNoInterval(texts, lastFrame) ==
    [i \in 1..Len(texts) |->
        IF texts[i].closed THEN texts[i]
        ELSE [texts[i] EXCEPT !.end = lastFrame - 1]]

CloseAtEnd(texts, lastFrame) ==
    [i \in 1..Len(texts) |->
        IF texts[i].closed THEN texts[i]
        ELSE [texts[i] EXCEPT !.end = (lastFrame - 1) + 1]]

\* the predicate of filteredTexts; duration > videoLength * 0.7 with
\* videoLength = frames.length * 0.5 s is 10 * duration > 7 * frames.length
\* in units of 0.5 s
KeepText(t, numFrames) ==
    LET textLower == Trim(ToLowerCase(t.text))
    IN /\ \A brand \in BRAND_FILTER :
             textLower # brand /\ textLower # RemoveFirstSpace(brand)
       /\ textLower \notin SIZE_FILTER
       /\ ~BrandSizeRe(textLower)
       /\ ~SloganRe(textLower)
       /\ Len(textLower) >= 3
       /\ ~(10 * (t.end - t.start) > 7 * numFrames)

\* filteredTexts.sort((a, b) => a.start - b.start): stable insertion
RECURSIVE InsertByStart(_, _)
InsertByStart(sorted, t) ==
    IF sorted = <<>> THEN <<t>>
    ELSE IF sorted[Len(sorted)].start <= t.start THEN Append(sorted, t)
         ELSE Append(InsertByStart(SubSeq(sorted, 1, Len(sorted) - 1), t),
                     sorted[Len(sorted)])

RECURSIVE SortByStart(_)
SortByStart(list) ==
    IF list = <<>> THEN <<>>
    ELSE InsertByStart(SortByStart(SubSeq(list, 1, Len(list) - 1)),
                       list[Len(list)])

Min(a, b) == IF a <= b THEN a ELSE b

\* a merge that keeps the end of the existing text
KeepExisting(a, b) == a

Max(a, b) == IF a >= b THEN a ELSE b

\* isConsecutive of the merge pass: gap > 0 && gap <= 0.5 (s)
IsConsecutiveWide(gap) == gap > 0 /\ gap <= 3

IsConsecutive(gap) == gap > 0 /\ gap <= 1

\* mergedTexts.find(...): index of the first merged text with the same
\* normalized text that overlaps t or precedes it by a consecutive gap
FindMerge(mergedTexts, t) ==
    LET found == {i \in 1..Len(mergedTexts) :
                     LET m == mergedTexts[i] IN
                     /\ StripForCompare(m.text) = StripForCompare(t.text)
                     /\ \/ t.start <= m.end /\ t.end >= m.start
                        \/ IsConsecutive(t.start - m.end)}
    IN IF found = {} THEN 0
       ELSE CHOOSE i \in found : \A j \in found : i <= j

RECURSIVE MergeTexts(_, _, _)
MergeTexts(mergedTexts, filteredTexts, j) ==
    IF j > Len(filteredTexts) THEN mergedTexts
    ELSE LET t == filteredTexts[j]
             e == FindMerge(mergedTexts, t)
         IN MergeTexts(
                IF e # 0
                THEN [mergedTexts EXCEPT
                         ![e].start = Min(mergedTexts[e].start, t.start),
                         ![e].end = Max(mergedTexts[e].end, t.end)]
                ELSE Append(mergedTexts, t),
                filteredTexts, j + 1)

\* from the end of the frame loop to the texts of the response
FinalTexts(texts, numFrames) ==
    LET closedTexts == CloseAtEnd(texts, numFrames)
        filteredTexts == SelectSeq(closedTexts,
                                   LAMBDA t : KeepText(t, numFrames))
    IN MergeTexts(<<>>, SortByStart(filteredTexts), 1)

\* no analysis request in progress
\* framesDir: uploads/analysis/<jobId> exists; response: what was answered
NoAnalysis == [pc |-> "idle", numFrames |-> 0, frames |-> <<>>,
               texts |-> <<>>, result |-> <<>>, framesDir |-> FALSE,
               response |-> "none"]

\* the request arrives, the frames directory is made and ffmpeg extracts
\* n frames (n > 0)
AnStart(n) ==
    /\ an.pc = "idle"
    /\ an' = [NoAnalysis EXCEPT !.pc = "frames", !.numFrames = n,
                                !.framesDir = TRUE]
    /\ UNCHANGED <<jobVars, tr, nz, sc, ps>>

\* ffmpeg exits with 0 and leaves no frame: the directory is removed and
\* the request answered with no segments and no texts
AnNoFrames ==
    /\ an.pc = "idle"
    /\ an' = [NoAnalysis EXCEPT !.pc = "done", !.framesDir = FALSE,
                                !.response = "empty"]
    /\ UNCHANGED <<jobVars, tr, nz, sc, ps>>

\* ffmpeg exits with an error: execPromise rejects, the catch of the
\* handler answers 500
AnExtractFails ==
    /\ an.pc = "idle"
    /\ an' = [NoAnalysis EXCEPT !.pc = "done", !.framesDir = TRUE,
                                !.response = "error"]
    /\ UNCHANGED <<jobVars, tr, nz, sc, ps>>

\* one iteration of the frame loop: the response for the next frame
AnFrame ==
    /\ an.pc = "frames"
    /\ Len(an.frames) < an.numFrames
    /\ \E outcome \in FrameOutcomes :
          an' = [an EXCEPT
                    !.frames = Append(@, outcome),
                    !.texts = ProcessFrame(@, outcome,
                                           Timestamp(Len(an.frames) + 1))]
    /\ UNCHANGED <<jobVars, tr, nz, sc, ps>>

\* after the last frame: close, filter, merge and answer
AnFinish ==
    /\ an.pc = "frames"
    /\ Len(an.frames) = an.numFrames
    /\ an' = [an EXCEPT !.pc = "done",
                        !.result = FinalTexts(an.texts, an.numFrames),
                        !.response = "texts"]
    /\ UNCHANGED <<jobVars, tr, nz, sc, ps>>

NextAnalyze ==
    \/ \E n \in 1..MaxFrames : AnStart(n)
    \/ AnNoFrames
    \/ AnExtractFails
    \/ AnFrame
    \/ AnFinish

SpecAnalyze == Init /\ [][NextAnalyze]_vars

\* ------------------------------------------------------------------------
\* Properties of the text segment builder
\* ------------------------------------------------------------------------
\* the comparison texts of the detections of frame i that are kept
DetectedKeys(i) ==
    IF an.frames[i].kind # "parsed" THEN {}
    ELSE {StripForCompare(NormalizedText(an.frames[i].texts[j])) :
             j \in {j \in 1..Len(an.frames[i].texts) :
                        NormalizedText(an.frames[i].texts[j]) # <<>>}}

\* the returned segments of comparison text key that contain timestamp ts
Covering(key, ts) ==
    {i \in 1..Len(an.result) :
        /\ StripForCompare(an.result[i].text) = key
        /\ an.result[i].start <= ts
        /\ ts < an.result[i].end}

\* frames a < b are successive detections of the text key, which has
\* letters or digits, and both lie in returned segments of that text
DetectionPair(a, b, key) ==
    /\ a < b
    /\ key # <<>>
    /\ key \in DetectedKeys(a) \cap DetectedKeys(b)
    /\ \A c \in (a + 1)..(b - 1) : key \notin DetectedKeys(c)
    /\ Covering(key, Timestamp(a)) # {}
    /\ Covering(key, Timestamp(b)) # {}

C11_SegmentWithinVideo ==
    an.pc = "done" =>
        \A i \in 1..Len(an.result) :
            /\ an.result[i].start < an.result[i].end
            /\ an.result[i].end <= Timestamp(an.numFrames) + frameInterval

\* an analysis returned a segment closed by a later frame and a segment
\* that was open up to the end of the last frame
C11_Witness ==
    /\ an.pc = "done"
    /\ \E i, j \in 1..Len(an.result) :
          /\ an.result[i].closed
          /\ an.result[i].end < Timestamp(an.numFrames)
          /\ ~an.result[j].closed
          /\ an.result[j].start = Timestamp(an.numFrames)
          /\ an.result[j].end = Timestamp(an.numFrames) + frameInterval

\* ------------------------------------------------------------------------
\* The SALE scenario: the text is detected in the frames at 0.0 s, 0.5 s
\* and 2.5 s and in no other frame
\* ------------------------------------------------------------------------
SaleFrames == {1, 2, 6}

LastSaleFrame == CHOOSE i \in SaleFrames : \A j \in SaleFrames : j <= i

\* the outcomes of a frame in which the text SALE is not detected
OtherFrameOutcomes ==
    {o \in FrameOutcomes :
        \A j \in 1..Len(o.texts) :
            StripForCompare(o.texts[j]) # StripForCompare(SALE)}

\* the video ends with the last SALE frame or one frame later
SaleStart(n) ==
    /\ an.pc = "idle"
    /\ n \in LastSaleFrame..(LastSaleFrame + 1)
    /\ an' = [NoAnalysis EXCEPT !.pc = "frames", !.numFrames = n,
                                !.framesDir = TRUE]
    /\ UNCHANGED <<jobVars, tr, nz, sc, ps>>

\* one iteration of the frame loop on the frames of the scenario
SaleFrame ==
    /\ an.pc = "frames"
    /\ Len(an.frames) < an.numFrames
    /\ \E outcome \in FrameOutcomes :
          /\ IF Len(an.frames) + 1 \in SaleFrames
             THEN outcome = [kind |-> "parsed", texts |-> <<SALE>>]
             ELSE outcome \in OtherFrameOutcomes
          /\ an' = [an EXCEPT
                       !.frames = Append(@, outcome),
                       !.texts = ProcessFrame(@, outcome,
                                              Timestamp(Len(an.frames) + 1))]
    /\ UNCHANGED <<jobVars, tr, nz, sc, ps>>

NextSale ==
    \/ \E n \in 1..(LastSaleFrame + 1) : SaleStart(n)
    \/ SaleFrame
    \/ AnFinish

SpecSale == Init /\ [][NextSale]_vars

\* the frames analysed are those of the scenario
SaleScenario ==
    /\ Len(an.frames) >= LastSaleFrame
    /\ \A i \in 1..Len(an.frames) :
          StripForCompare(SALE) \in DetectedKeys(i) <=> i \in SaleFrames

\* C12: with SALE detected at 0.0 s, 0.5 s and 2.5 s and in no other frame
\* the analysis returns exactly two segments for it, SALE from 0.0 s to
\* 1.0 s and SALE from 2.5 s to 3.0 s (times in units of 0.5 s).
C12_SaleScenario ==
    (an.pc = "done" /\ SaleScenario) =>
        LET sale == {i \in 1..Len(an.result) :
                        StripForCompare(an.result[i].text)
                            = StripForCompare(SALE)}
        IN /\ Cardinality(sale) = 2
           /\ \E i, j \in sale :
                 /\ an.result[i].text = SALE
                 /\ an.result[i].start = 0
                 /\ an.result[i].end = 2
                 /\ an.result[j].text = SALE
                 /\ an.result[j].start = 5
                 /\ an.result[j].end = 6

\* ------------------------------------------------------------------------
\* The comparison normalization as a function of its input
\* ------------------------------------------------------------------------
\* characters of the input strings: letters of both cases, a digit, a
\* space, punctuation, an emoji and the capital I with dot above
NormalizeChars == {"S", "a", "5", " ", "!", "<fire>", "<I-dot>"}

NormalizeInputs == UNION {[1..n -> NormalizeChars] : n \in 0..MaxLen}

\* a text reaches the comparison
NzStart ==
    /\ nz.pc = "idle"
    /\ \E str \in NormalizeInputs :
          nz' = [NoNormalize EXCEPT !.pc = "input", !.input = str]
    /\ UNCHANGED <<jobVars, tr, an, sc, ps>>

\* stripForCompare(str)
NzNormalize ==
    /\ nz.pc = "input"
    /\ nz' = [nz EXCEPT !.pc = "once", !.once = StripForCompare(nz.input)]
    /\ UNCHANGED <<jobVars, tr, an, sc, ps>>

\* stripForCompare of a text that is a result of stripForCompare
NzNormalizeAgain ==
    /\ nz.pc = "once"
    /\ nz' = [nz EXCEPT !.pc = "twice", !.twice = StripForCompare(nz.once)]
    /\ UNCHANGED <<jobVars, tr, an, sc, ps>>

NextNormalize ==
    \/ NzStart
    \/ NzNormalize
    \/ NzNormalizeAgain

SpecNormalize == Init /\ [][NextNormalize]_vars

\* C13: the comparison normalization is idempotent: applied to an already
\* normalized string it returns the string unchanged.
C13_NormalizeIdempotent ==
    nz.pc = "twice" => nz.twice = nz.once

\* C14: the analysis never returns a text segment whose comparison text
\* (emoji and symbols stripped, spaces collapsed, lower case) is empty, and
\* never a segment of length zero.
C14_NoEmptyText ==
    an.pc = "done" =>
        \A i \in 1..Len(an.result) :
            /\ StripForCompare(an.result[i].text) # <<>>
            /\ an.result[i].start # an.result[i].end

\* ------------------------------------------------------------------------
\* The scene splitter of POST /api/localizer/smart-analyze
\* ------------------------------------------------------------------------
\* Times are counted in units of 0.05 s: the coalescing distance 0.3 s is
\* 6 and MIN_DURATION = 1.0 s is 20.
CutEpsilon == 6

MIN_DURATION == 20

\* pts_time values of the scene trace and durations of the video; 0 is the
\* duration read from an output without a Duration line
CutTimes == {4, 8, 13, 30, 39, 100, 180}

Durations == {0, 10, 45, 200}

\* the traces: increasing lists of at most MaxCuts pts_time values
RECURSIVE Ascending(_)
Ascending(set) ==
    IF set = {} THEN <<>>
    ELSE LET m == CHOOSE x \in set : \A y \in set : x <= y
         IN <<m>> \o Ascending(set \ {m})

Traces == {Ascending(c) : c \in {c \in SUBSET CutTimes : Cardinality(c) <= MaxCuts}}

\* time - rawSceneTimes[rawSceneTimes.length - 1] >= 0.3
KeepCutAlways(time, last) == time - last >= 0

KeepCut(time, last) == time - last >= CutEpsilon

\* the while loop over the matches of pts_time, from rawSceneTimes = [0]
RECURSIVE Coalesce(_, _, _)
Coalesce(rawSceneTimes, times, j) ==
    IF j > Len(times) THEN rawSceneTimes
    ELSE Coalesce(IF KeepCut(times[j], rawSceneTimes[Len(rawSceneTimes)])
                  THEN Append(rawSceneTimes, times[j])
                  ELSE rawSceneTimes,
                  times, j + 1)

\* "Create raw segments": the last one ends at totalSeconds
RawSegments(rawSceneTimes, totalSeconds) ==
    [i \in 1..Len(rawSceneTimes) |->
        [start |-> rawSceneTimes[i],
         end |-> IF i < Len(rawSceneTimes) THEN rawSceneTimes[i + 1]
                 ELSE totalSeconds]]

\* dur < MIN_DURATION
TooShortHalf(s) == 2 * (s.end - s.start) < MIN_DURATION

TooShort(s) == s.end - s.start < MIN_DURATION

\* the segment the for loop of the merge stops at, 0 when it finds none
FirstShort(segments) ==
    LET short == {i \in 1..Len(segments) :
                     TooShort(segments[i]) /\ Len(segments) > 1}
    IN IF short = {} THEN 0
       ELSE CHOOSE i \in short : \A j \in short : i <= j

\* segments.splice(i, 1)
Splice(segments, i) ==
    SubSeq(segments, 1, i - 1) \o SubSeq(segments, i + 1, Len(segments))

\* one pass of the while loop that merges: forward, the last one backward
MergeShort(segments, i) ==
    IF i < Len(segments)
    THEN Splice([segments EXCEPT ![i + 1].start = segments[i].start], i)
    ELSE Splice([segments EXCEPT ![i - 1].end = segments[i].end], i)

\* Math.round(t * 10) / 10, in units of 0.05 s
RoundTenth(t) == 2 * ((t + 1) \div 2)

\* the request arrives; ffmpeg gives the duration and the scene trace
ScStart ==
    /\ sc.pc = "idle"
    /\ \E times \in Traces, total \in Durations :
          sc' = [NoScenes EXCEPT !.pc = "trace", !.times = times,
                                 !.total = total]
    /\ UNCHANGED <<jobVars, tr, an, nz, ps>>

\* rawSceneTimes and the raw segments
ScRaw ==
    /\ sc.pc = "trace"
    /\ LET rawSceneTimes == Coalesce(<<0>>, sc.times, 1)
       IN sc' = [sc EXCEPT !.pc = "merge", !.raw = rawSceneTimes,
                           !.segments = RawSegments(rawSceneTimes, sc.total)]
    /\ UNCHANGED <<jobVars, tr, an, nz, ps>>

\* a pass of the while loop that merges a segment
ScMerge ==
    /\ sc.pc = "merge"
    /\ FirstShort(sc.segments) # 0
    /\ sc' = [sc EXCEPT
                 !.segments = MergeShort(@, FirstShort(sc.segments))]
    /\ UNCHANGED <<jobVars, tr, an, nz, ps>>

\* the pass that merges nothing ends the loop; rounding and response
ScRound ==
    /\ sc.pc = "merge"
    /\ FirstShort(sc.segments) = 0
    /\ sc' = [sc EXCEPT
                 !.pc = "done",
                 !.segments = [i \in 1..Len(sc.segments) |->
                                  [start |-> RoundTenth(sc.segments[i].start),
                                   end |-> RoundTenth(sc.segments[i].end)]]]
    /\ UNCHANGED <<jobVars, tr, an, nz, ps>>

NextScenes ==
    \/ ScStart
    \/ ScRaw
    \/ ScMerge
    \/ ScRound

SpecScenes == Init /\ [][NextScenes]_vars

\* ------------------------------------------------------------------------
\* Properties of the scene splitter
\* ------------------------------------------------------------------------
\* C15: no returned scene interval is shorter than the minimum of 1.0 s
\* after the merge and the rounding, except a single interval of a video
\* that is shorter than the minimum; and every merging pass of the loop
\* removes an interval, so the loop ends.
C15_MinimumDuration ==
    /\ [](sc.pc = "done" =>
            \A i \in 1..Len(sc.segments) :
                \/ sc.segments[i].end - sc.segments[i].start >= MIN_DURATION
                \/ Len(sc.segments) = 1 /\ sc.total < MIN_DURATION)
    /\ [][(sc.pc = "merge" /\ sc'.pc = "merge") =>
             Len(sc'.segments) < Len(sc.segments)]_vars

\* short intervals were merged away and more than one scene is returned
C15_Witness ==
    /\ sc.pc = "done"
    /\ Len(sc.segments) >= 2
    /\ Len(sc.segments) < Len(sc.raw)

Kept(time) == \E i \in 1..Len(sc.raw) : sc.raw[i] = time

\* the cut before times[j] in the trace, 0 being the first cut
CutBefore(j) == IF j = 1 THEN 0 ELSE sc.times[j - 1]

\* the last cut kept before the cut time
LastKeptBefore(time) ==
    CHOOSE r \in {sc.raw[i] : i \in 1..Len(sc.raw)} :
        /\ r < time
        /\ \A i \in 1..Len(sc.raw) : sc.raw[i] < time => sc.raw[i] <= r

\* C16 (as stated): every cut closer than 0.3 s to the cut before it is
\* dropped; for the cuts [0, 0.2, 0.4, 5.0, 9.0] the cuts used are
\* [0, 5.0, 9.0].
C16_DropsAdjacentCuts ==
    sc.pc \in {"merge", "done"} =>
        /\ \A j \in 1..Len(sc.times) :
              sc.times[j] - CutBefore(j) < CutEpsilon => ~Kept(sc.times[j])
        /\ sc.times = <<4, 8, 100, 180>> => sc.raw = <<0, 100, 180>>

\* C16 (amended): the cuts used start with 0, and a cut of the trace is
\* dropped exactly when it is closer than 0.3 s to the last cut kept before
\* it; for the cuts [0, 0.2, 0.4, 5.0, 9.0] the cuts used are
\* [0, 0.4, 5.0, 9.0].
C16_DropsCutsNearLastKept ==
    sc.pc \in {"merge", "done"} =>
        /\ sc.raw[1] = 0
        /\ \A i \in 2..Len(sc.raw) :
              \E j \in 1..Len(sc.times) : sc.times[j] = sc.raw[i]
        /\ \A j \in 1..Len(sc.times) :
              Kept(sc.times[j]) <=>
                  sc.times[j] - LastKeptBefore(sc.times[j]) >= CutEpsilon
        /\ sc.times = <<4, 8, 100, 180>> => sc.raw = <<0, 8, 100, 180>>

\* the cuts of the example were coalesced
C16_Witness ==
    /\ sc.pc = "merge"
    /\ sc.times = <<4, 8, 100, 180>>
    /\ sc.raw = <<0, 8, 100, 180>>

\* ------------------------------------------------------------------------
\* GET /api/localizer/jobs
\* ------------------------------------------------------------------------
\* Array.from(localizerJobs.values()): the jobs in the order of the Map
ListJobs == [i \in 1..Len(localizerJobs) |-> jobs[localizerJobs[i].obj]]

\* job.created, taken in the request that takes Date.now() for the id
Created(job) == job.id[2]

\* jobs are created, deleted and the process restarted, with room for
\* MaxListJobs job objects
InitList == InitHeap(MaxListJobs) /\ InitIdle

NextList ==
    \/ Tick
    \/ \E v \in VideoNames \cup {""}, a \in JobAuthors : Generate(v, a)
    \/ \E id \in RequestIds, a \in RequestAuthors : Delete(id, a)
    \/ Restart

SpecList == InitList /\ [][NextList]_vars

\* C17: the list of jobs is ordered newest-first by creation time, after
\* any creations, deletions and restarts.
C17_NewestFirst ==
    \A i, j \in 1..Len(ListJobs) :
        i < j => Created(ListJobs[i]) >= Created(ListJobs[j])

\* ------------------------------------------------------------------------
\* Frame extraction of the analysis
\* ------------------------------------------------------------------------
\* C18: when the frame extraction fails or yields no frame, the request is
\* answered with an empty result and not with an error.
C18_NoFramesIsEmptyResult ==
    (an.pc = "done" /\ an.numFrames = 0) => an.response = "empty"

\* C19: the frames directory of an analysis has been removed when the
\* analysis has ended, with a result or with an error.
C19_FramesDirRemoved == an.pc = "done" => ~an.framesDir

\* ------------------------------------------------------------------------
\* Recovery of the jobs after a restart
\* ------------------------------------------------------------------------
\* a job object loaded from the jobs file in a status of work in progress:
\* no generateAllCountries task belongs to it
Recovered(k) ==
    /\ restarts > 0
    /\ k \in MapObjs(localizerJobs)
    /\ tasks[k].pc = "none"
    /\ jobs[k].status \in {"translating", "generating"}

OutcomeKeys(outcome) ==
    {StripForCompare(outcome.texts[j]) : j \in 1..Len(outcome.texts)}

\* the entries open before the frame whose text is not among the frame's
\* detections are closed at the frame's timestamp
ClosedWhenMissing(outcome, timestamp) ==
    \A i \in 1..Len(an.texts) :
        (/\ ~an.texts[i].closed
         /\ StripForCompare(an.texts[i].text) \notin OutcomeKeys(outcome))
        => /\ an'.texts[i].closed
           /\ an'.texts[i].end = timestamp

\* C21: for every frame processed, also one whose response does not parse
\* (zero detections), every open entry whose normalized text is not among
\* the frame's detections is closed with end equal to the frame's
\* timestamp.
C21_ClosedWhenMissing ==
    [][(an.pc = "frames" /\ Len(an'.frames) = Len(an.frames) + 1) =>
          ClosedWhenMissing(an'.frames[Len(an'.frames)],
                            Timestamp(Len(an'.frames)))]_vars

\* ------------------------------------------------------------------------
\* The final merge pass
\* ------------------------------------------------------------------------
\* filteredTexts: what the merge pass is given
FilteredTexts ==
    SelectSeq(CloseAtEnd(an.texts, an.numFrames),
              LAMBDA t : KeepText(t, an.numFrames))

SameKey(a, b) == StripForCompare(a.text) = StripForCompare(b.text)

\* a and b overlap, or one follows the other after a gap of at most 0.5 s
Adjoining(a, b) == a.start <= b.end + 1 /\ b.start <= a.end + 1

\* C22: after the final merge pass no two returned texts with identical
\* normalized text overlap or are separated by a gap of 0.5 s or less, and
\* each returned text spans from the minimum start to the maximum end of
\* the texts unified into it (every text given to the pass lies within
\* one returned text of its normalized text, whose start and end are the
\* start and the end of such texts).
C22_MergedApartAndSpanning ==
    an.pc = "done" =>
        LET filteredTexts == FilteredTexts
            mergedTexts == an.result
        IN  /\ \A i, j \in 1..Len(mergedTexts) :
                  (i # j /\ SameKey(mergedTexts[i], mergedTexts[j]))
                  => ~Adjoining(mergedTexts[i], mergedTexts[j])
            /\ \A k \in 1..Len(filteredTexts) :
                  \E i \in 1..Len(mergedTexts) :
                      /\ SameKey(mergedTexts[i], filteredTexts[k])
                      /\ mergedTexts[i].start <= filteredTexts[k].start
                      /\ filteredTexts[k].end <= mergedTexts[i].end
            /\ \A i \in 1..Len(mergedTexts) :
                  /\ \E k \in 1..Len(filteredTexts) :
                        /\ SameKey(mergedTexts[i], filteredTexts[k])
                        /\ filteredTexts[k].start = mergedTexts[i].start
                  /\ \E k \in 1..Len(filteredTexts) :
                        /\ SameKey(mergedTexts[i], filteredTexts[k])
                        /\ filteredTexts[k].end = mergedTexts[i].end

\* two texts were unified, while another text of the same normalized text
\* stayed apart
C22_Witness ==
    /\ an.pc = "done"
    /\ Len(FilteredTexts) > Len(an.result)
    /\ \E i, j \in 1..Len(an.result) :
          i # j /\ SameKey(an.result[i], an.result[j])

\* ------------------------------------------------------------------------
\* The language loop of a job
\* ------------------------------------------------------------------------
\* the first n languages of the target list
FirstLanguages(n) == {LANGUAGES[i] : i \in 1..n}

Positions == {"", "top", "bottom", "center", "center-top", "center-bottom"}

\* t.y: undefined or a percentage of the height
Percentages ==
    {NoValue} \cup {[def |-> TRUE, v |-> y] : y \in {0, 25, 50, 80, 100}}

\* widths and heights of the box image of a rounded text
ImageWidths == {400, 801}

ImageHeights == {117, 234}

\* Math.round((y / 100) * 1920)
PercentOfHeight(y) == (192 * y + 5) \div 10

\* the subtitle track: \an5\pos(pixelX, pixelY)
AssPixelX == 540

AssPixelY(y) == IF y.def THEN PercentOfHeight(y.v) ELSE 900

\* _posY of a rounded text
PosY(position, y) ==
    IF position = "center-top" THEN 820
    ELSE IF position = "center-bottom" THEN 1000
    ELSE IF y.def THEN PercentOfHeight(y.v) - 60
    ELSE 900

\* generateTextOverlayPngs: t._posY || Math.round(videoHeight / 2 - imgH / 2)
OverlayY(posY, imgH) ==
    IF posY # 0 THEN posY ELSE (1920 - imgH + 1) \div 2

\* the image is centred: Math.round((videoWidth - imgW) / 2)
OverlayX(imgW) == (1080 - imgW + 1) \div 2

\* a text of the job reaches the texts.forEach of a language
PsText(path, position, y, imgW, imgH) ==
    /\ ps.pc = "idle"
    /\ path = "ass" => imgW = 0 /\ imgH = 0
    /\ path = "rounded" => imgW # 0 /\ imgH # 0
    /\ ps' = [NoPosition EXCEPT !.pc = "text", !.path = path,
                                !.position = position, !.y = y,
                                !.imgW = imgW, !.imgH = imgH]
    /\ UNCHANGED <<jobVars, tr, an, nz, sc>>

\* its position is computed: the Dialogue line of the subtitle track, or
\* the overlay of the box image
PsResolve ==
    /\ ps.pc = "text"
    /\ ps' = IF ps.path = "ass"
             THEN [ps EXCEPT !.pc = "done", !.pixelX = AssPixelX,
                             !.pixelY = AssPixelY(ps.y)]
             ELSE [ps EXCEPT !.pc = "done",
                             !.pixelX = OverlayX(ps.imgW),
                             !.pixelY = OverlayY(PosY(ps.position, ps.y),
                                                 ps.imgH)]
    /\ UNCHANGED <<jobVars, tr, an, nz, sc>>

NextPosition ==
    \/ \E path \in {"ass", "rounded"}, position \in Positions,
          y \in Percentages, imgW \in ImageWidths \cup {0},
          imgH \in ImageHeights \cup {0} :
              PsText(path, position, y, imgW, imgH)
    \/ PsResolve

SpecPosition == Init /\ [][NextPosition]_vars

\* C24: when the percentage coordinate of a text is present it gives the
\* pixel position, as a percentage of the 1920 pixel height, whatever the
\* named anchor is: the position of the subtitle line, and the top of the
\* box image, which the code puts 60 pixels above it.
C24_PercentageTakesPrecedence ==
    (ps.pc = "done" /\ ps.y.def) =>
        ps.pixelY = IF ps.path = "ass"
                    THEN PercentOfHeight(ps.y.v)
                    ELSE PercentOfHeight(ps.y.v) - 60

\* ------------------------------------------------------------------------
\* Two jobs writing the jobs file
\* ------------------------------------------------------------------------
\* jobs are created and their tasks run, with room for MaxListJobs job
\* objects
NextPair ==
    \/ Tick
    \/ \E v \in VideoNames \cup {""}, a \in JobAuthors : Generate(v, a)
    \/ \E k \in Slots, ok \in BOOLEAN : TranslateReturns(k, ok)
    \/ \E k \in Slots, ok \in BOOLEAN : EncodeReturns(k, ok)
    \/ \E k \in Slots : QcReturns(k)

SpecPair == InitList /\ [][NextPair]_vars

C26_CancelledNeverDone ==
    \A k \in Slots : jobs[k].cancelled => jobs[k].status # "done"

\* ------------------------------------------------------------------------
\* Deleting a job whose task is running
\* ------------------------------------------------------------------------
\* the job object k was deleted from the registry while its task runs
DeletedRunning(k) ==
    /\ jobs[k].id # NoId
    /\ k \notin MapObjs(localizerJobs)
    /\ tasks[k].pc \in {"fetch", "encode", "qc"}

\* C27: after the delete of a job whose pipeline is running, the job does
\* not come back into the registry or the jobs file and no further
\* language output is produced for it.
C27_DeleteEndsPipeline ==
    [][\A k \in Slots :
          DeletedRunning(k) =>
              /\ k \notin MapObjs(localizerJobs')
              /\ \A i \in 1..Len(jobsFile') : jobsFile'[i].id # jobs[k].id
              /\ \A f \in outFiles' : f[1] = jobs[k].id => f \in outFiles]_vars

\* ------------------------------------------------------------------------
\* Identifiers of submitted jobs
\* ------------------------------------------------------------------------
\* C28: an accepted submission gets an id that no job of the registry has:
\* no step puts another job object under the id of a registered job, also
\* when two submissions arrive in the same millisecond.
C28_SubmissionKeepsRecords ==
    [][\A id \in RequestIds :
          (/\ MapHas(localizerJobs, id)
           /\ MapHas(localizerJobs', id)
           /\ restarts' = restarts)
          => MapGet(localizerJobs', id) = MapGet(localizerJobs, id)]_vars

\* ------------------------------------------------------------------------
\* The queue file under processQueue
\* ------------------------------------------------------------------------
QueueIds(q) == {q[i].id : i \in 1..Len(q)}

\* C29: the entries that the queue endpoints added or removed while
\* processQueue runs are preserved: a step of processQueue (a step that
\* moves a run or a task) leaves in the queue file the entries that were
\* in it, no fewer and no more.
C29_QueueChangesPreserved ==
    [][(runs' # runs \/ tasks' # tasks) =>
          QueueIds(queueFile') = QueueIds(queueFile)]_vars

\* ------------------------------------------------------------------------
\* Queue processing triggered again
\* ------------------------------------------------------------------------
\* the process starts with two pending entries in queue.json, with room
\* for MaxReruns invocations of processQueue and MaxRerunJobs job objects
InitRerun ==
    /\ now = MaxClock
    /\ jobs = [k \in 1..MaxRerunJobs |-> NoJob]
    /\ tasks = [k \in 1..MaxRerunJobs |-> NoTask]
    /\ localizerJobs = <<>>
    /\ jobsFile = <<>>
    /\ queueFile = [i \in 1..2 |->
                       [id |-> <<"queue", i - 1>>, author |-> "",
                        video |-> "v1", status |-> "pending"]]
    /\ runs = [r \in 1..MaxReruns |-> IdleRun]
    /\ outDirs = {}
    /\ outFiles = {}
    /\ restarts = 0
    /\ InitIdle

NextRerun ==
    \/ QueueProcess
    \/ \E k \in Slots, ok \in BOOLEAN : TranslateReturns(k, ok)
    \/ \E k \in Slots, ok \in BOOLEAN : EncodeReturns(k, ok)
    \/ \E k \in Slots : QcReturns(k)

SpecRerun == InitRerun /\ [][NextRerun]_vars

\* C30: a pending queue entry is processed at most once, also when
\* processing is triggered again during a run: whenever processQueue
\* starts the job of an entry, the registry holds no job with the id of
\* the entry (so no record is replaced by a fresh one in translating).
C30_EntryProcessedOnce ==
    [][\A k \in Slots :
          (/\ tasks'[k].run # 0
           /\ tasks'[k].pc = "fetch"
           /\ tasks[k].pc \in {"none", "returned", "rejected"})
          => ~MapHas(localizerJobs, jobs'[k].id)]_vars

====
